---------------------------- MODULE Spec2Model ----------------------------
(***************************************************************************)
(* KITTIFull (datasets/kitti_full.py): tracklet assembly, temporal         *)
(* subsampling, global frame index, frame building and the on-disk cache.  *)
(*                                                                         *)
(* Geometry is one-dimensional: a point is an integer, a point cloud a set *)
(* of integers, the velodyne->camera calibration a translation, a bounding *)
(* box a centre, a half extent and an orientation tag.                      *)
(***************************************************************************)
EXTENDS Integers, Sequences, FiniteSets, TLC

VARIABLES
    labels,     \* label_02/%04d.txt : scene id -> sequence of rows
    calib,      \* calib/%04d.txt    : scene id -> sequence of lines, or NoFile
    velodyne,   \* velodyne/%04d/%06d.bin : set of <<scene, frame>> files present
    disk,       \* *.cache files of data_root_dir : path -> pickled tracklets
    objs,       \* the KITTIFull instance of the running process: <<>> or <<self>>
    runs,       \* constructions so far (each run of the program makes one)
    pending,    \* get_frame calls between the calibration lookup and the store
    ret         \* the last call: operation, arguments and outcome

vars == <<labels, calib, velodyne, disk, objs, runs, pending, ret>>

----------------------------------------------------------------------------
(* Bounds of the model *)

MaxRuns == 2        \* runs of the program over one data root
MaxCallers == 2     \* get_frame calls in flight at once
MaxTrackLen == 11   \* records of the generated track of SpecSub
MaxInterval == 4    \* largest fixed interval drawn in SpecSub

----------------------------------------------------------------------------
(* Generic helpers *)

Min(a, b) == IF a < b THEN a ELSE b

RECURSIVE SumSeq(_)
SumSeq(s) == IF s = <<>> THEN 0 ELSE s[1] + SumSeq(Tail(s))

RECURSIVE Concat(_)
Concat(ss) == IF ss = <<>> THEN <<>> ELSE ss[1] \o Concat(Tail(ss))

Ok(v) == [tag |-> "ok", val |-> v]
Err(e) == [tag |-> "err", val |-> e]

----------------------------------------------------------------------------
(* Configuration surface *)

Categories == {"Van", "Car", "Pedestrian", "Cyclist", "All"}
Modes == {"camera", "velodyne"}
Splits == {"train", "val", "test"}

IntInterval(k) == [lit |-> "int", k |-> k]
AllIntervals == [lit |-> "all", k |-> 0]


(* cfg: the recognised options read by KITTIFull *)
MkCfg(cat, mode, off, ivl, dbg, ctrain, ceval, moff, mscale) ==
    [category_name |-> cat, coordinate_mode |-> mode, preload_offset |-> off,
     preload_interval |-> ivl, debug |-> dbg, cache_train |-> ctrain,
     cache_eval |-> ceval, model_offset |-> moff, model_scale |-> mscale]

----------------------------------------------------------------------------
(* __init__, lines 20-40: option handling *)

CategorySupported(cfg) == cfg.category_name \in Categories

split_type_to_scene_ids(debug, split_type) ==
    IF ~debug
    THEN CASE split_type = "train" -> [i \in 1..17 |-> i - 1]
           [] split_type = "val"   -> <<17, 18>>
           [] OTHER                -> <<19, 20>>
    ELSE CASE split_type = "train" -> <<0>>
           [] split_type = "val"   -> <<18>>
           [] OTHER                -> <<19>>

PreloadOffsetAlways(cfg, split_type) == cfg.preload_offset

preload_offset_of(cfg, split_type) ==
    IF split_type = "train" THEN cfg.preload_offset ELSE -1

cache_of(cfg, split_type) ==
    IF split_type = "train" THEN cfg.cache_train ELSE cfg.cache_eval

----------------------------------------------------------------------------
(* _build_tracklet_annotations *)

\* data[data["type"] == ...], lines 151-157
KeepRow(cfg, row) ==
    IF cfg.category_name = "All"
    THEN row.type \in {"Car", "Van", "Pedestrian", "Cyclist"}
    ELSE row.type = cfg.category_name

\* data.insert(loc=0, column='scene', value=scene_id), line 159
WithScene(row, scene_id) ==
    [scene |-> scene_id, frame |-> row.frame, track_id |-> row.track_id,
     type |-> row.type, x |-> row.x, length |-> row.length]

RECURSIVE SortedDescending(_)
SortedDescending(S) ==
    IF S = {} THEN <<>>
    ELSE LET m == CHOOSE a \in S : \A b \in S : b <= a
         IN  <<m>> \o SortedDescending(S \ {m})

\* sorted(data.track_id.unique()), line 160
RECURSIVE SortedSeq(_)
SortedSeq(S) ==
    IF S = {} THEN <<>>
    ELSE LET m == CHOOSE a \in S : \A b \in S : a <= b
         IN  <<m>> \o SortedSeq(S \ {m})

\* tracklet_anno.sort_values(by=['frame']), line 163 (frame numbers of one
\* track are distinct, so the order is determined)
RECURSIVE InsertByFrame(_, _)
InsertByFrame(sorted, a) ==
    IF sorted = <<>> THEN <<a>>
    ELSE IF a.frame < sorted[1].frame THEN <<a>> \o sorted
    ELSE <<sorted[1]>> \o InsertByFrame(Tail(sorted), a)

RECURSIVE sort_values(_)
sort_values(rows) ==
    IF rows = <<>> THEN <<>>
    ELSE InsertByFrame(sort_values(Tail(rows)), rows[1])

SliceSkipsFirst(s, i, k) ==
    [j \in 1..((Len(s) - (i + 1) + (k - 1)) \div k) |-> s[(i + 1) + 1 + (j - 1) * k]]

\* tracklet_anno[i::interval], lines 170, 175, 181 (i is 0-based, i < len)
Slice(s, i, k) ==
    [j \in 1..((Len(s) - i + (k - 1)) \div k) |-> s[i + 1 + (j - 1) * k]]

\* for i in range(min(len(tracklet_anno), interval)): append tracklet_anno[i::interval]
FixedInterval(track, k) ==
    [p \in 1..Min(Len(track), k) |-> Slice(track, p - 1, k)]

SampleIntervalsTrainEverywhere(split_type) == <<1, 2, 3, 5, 10>>

\* lines 166-173: the intervals of preload_interval == 'all'
sample_intervals(split_type) ==
    IF split_type = "train" THEN <<1, 2, 3, 5, 10>> ELSE <<5>>

\* lines 165-182: the tracklets one physical track yields
TrackTracklets(track, preload_interval, split_type) ==
    IF preload_interval.lit = "all"
    THEN LET ivs == sample_intervals(split_type)
         IN  Concat([n \in 1..Len(ivs) |-> FixedInterval(track, ivs[n])])
    ELSE FixedInterval(track, preload_interval.k)

\* lines 139-182: the tracklets of one scene
SceneTracklets(cfg, split_type, preload_interval, scene_id) ==
    LET kept == SelectSeq(labels[scene_id], LAMBDA r : KeepRow(cfg, r))
        data == [n \in DOMAIN kept |-> WithScene(kept[n], scene_id)]
        track_ids == SortedSeq({data[n].track_id : n \in DOMAIN data})
        OfTrack(tid) == sort_values(SelectSeq(data, LAMBDA a : a.track_id = tid))
    IN  Concat([n \in 1..Len(track_ids) |->
                  TrackTracklets(OfTrack(track_ids[n]), preload_interval, split_type)])

build_tracklet_annotations(cfg, split_type, preload_interval, scene_ids) ==
    Concat([n \in 1..Len(scene_ids) |->
              SceneTracklets(cfg, split_type, preload_interval, scene_ids[n])])

----------------------------------------------------------------------------
(* External geometry routines (datasets/utils): contracts of spec 4.3, 4.4 *)

Abs(a) == IF a < 0 THEN -a ELSE a

\* the points within the axis-aligned box expanded by offset around bbox
crop_pcd_axis_aligned(pcd, bbox, offset) ==
    {p \in pcd : Abs(p - bbox.center) <= bbox.size + offset}

\* the per-frame clouds, each moved into its box frame and cut to the scaled
\* and offset box, merged
merge_template_pcds(pcds, bboxes, offset, scale) ==
    UNION {{p - bboxes[n].center : p \in
               {q \in pcds[n] :
                    Abs(q - bboxes[n].center) <= bboxes[n].size * scale + offset}}
           : n \in DOMAIN pcds}

----------------------------------------------------------------------------
(* _read_calibration_file and _build_frame *)

\* lines 186-199: the lines that parse as matrices, by key; a later line of a
\* key replaces an earlier one; open() raises when the file is missing
read_calibration_file(file) ==
    IF ~file.exists THEN Err("FileNotFoundError")
    ELSE LET good == SelectSeq(file.lines, LAMBDA l : l.numeric)
             keys == {good[n].key : n \in DOMAIN good}
             Last(k) == CHOOSE n \in DOMAIN good :
                            /\ good[n].key = k
                            /\ \A m \in DOMAIN good : good[m].key = k => m <= n
         IN  Ok([k \in keys |-> good[Last(k)].t])

Placeholder == {0}

PcdRaisesWhenAbsent(scene_id, frame_id, mode, t) ==
    IF <<scene_id, frame_id>> \in DOMAIN velodyne
    THEN Ok(IF mode = "camera"
            THEN {p + t : p \in velodyne[<<scene_id, frame_id>>]}
            ELSE velodyne[<<scene_id, frame_id>>])
    ELSE Err("FileNotFoundError")

\* lines 235-245: the cloud of the frame, or the placeholder when reading fails
load_pcd(scene_id, frame_id, mode, t) ==
    IF <<scene_id, frame_id>> \in DOMAIN velodyne
    THEN Ok(IF mode = "camera"
            THEN {p + t : p \in velodyne[<<scene_id, frame_id>>]}
            ELSE velodyne[<<scene_id, frame_id>>])
    ELSE Ok(Placeholder)

\* lines 214-234: the box in the configured coordinate system
make_bbox(frame_anno, mode, t) ==
    IF mode = "camera"
    THEN [center |-> frame_anno.x, size |-> frame_anno.length,
          orientation |-> "yaw_about_Y_then_X_90"]
    ELSE [center |-> frame_anno.x - t, size |-> frame_anno.length,
          orientation |-> "yaw_about_negZ_then_negZ_90"]

PutOnly(info, scene_id, value) == [s \in {scene_id} |-> value]

\* line 209: self.calibration_info[scene_id] = calib
Put(info, scene_id, value) ==
    [s \in DOMAIN info \cup {scene_id} |-> IF s = scene_id THEN value ELSE info[s]]

\* lines 204-209: the calibration store after the lookup of scene_id
StoreCalib(info, scene_id) ==
    IF scene_id \in DOMAIN info \/ read_calibration_file(calib[scene_id]).tag = "err"
    THEN info
    ELSE Put(info, scene_id, read_calibration_file(calib[scene_id]).val)

\* lines 201-247: the frame (or the exception) and the calibration store left
build_frame(info, cfg, frame_anno) ==
    LET scene_id == frame_anno.scene
        info2 == StoreCalib(info, scene_id)
    IN  IF scene_id \notin DOMAIN info2
        THEN [res |-> Err("FileNotFoundError"), info |-> info2]
        ELSE IF "Tr_velo_cam" \notin DOMAIN info2[scene_id]
        THEN [res |-> Err("KeyError"), info |-> info2]
        ELSE IF cfg.coordinate_mode \notin Modes
        THEN [res |-> Err("AssertionError"), info |-> info2]
        ELSE LET t == info2[scene_id]["Tr_velo_cam"]
                 pcd == load_pcd(scene_id, frame_anno.frame, cfg.coordinate_mode, t)
             IN  IF pcd.tag = "err"
                 THEN [res |-> pcd, info |-> info2]
                 ELSE [res |-> Ok([pcd |-> pcd.val,
                                   bbox |-> make_bbox(frame_anno, cfg.coordinate_mode, t),
                                   anno |-> frame_anno]),
                       info |-> info2]

----------------------------------------------------------------------------
(* __init__, lines 43-94 *)

\* lines 45-52: start (exclusive end) of each tracklet in the global index
RECURSIVE StartIds(_, _)
StartIds(nums, last_ed_frame_id) ==
    IF nums = <<>> THEN <<>>
    ELSE <<last_ed_frame_id>> \o StartIds(Tail(nums), last_ed_frame_id + nums[1])

RECURSIVE EndIds(_, _)
EndIds(nums, last_ed_frame_id) ==
    IF nums = <<>> THEN <<>>
    ELSE <<last_ed_frame_id + nums[1]>> \o EndIds(Tail(nums), last_ed_frame_id + nums[1])

CacheFileDirNoOffset(cfg, split_type, preload_offset, preload_interval) ==
    [prefix |-> IF cfg.debug THEN "KITTI_DEBUG" ELSE "KITTI",
     category_name |-> cfg.category_name, split_type |-> split_type,
     coordinate_mode |-> cfg.coordinate_mode, preload_offset |-> 0,
     preload_interval |-> preload_interval]

\* lines 55-60: the cache file of a configuration
cache_file_dir(cfg, split_type, preload_offset, preload_interval) ==
    [prefix |-> IF cfg.debug THEN "KITTI_DEBUG" ELSE "KITTI",
     category_name |-> cfg.category_name, split_type |-> split_type,
     coordinate_mode |-> cfg.coordinate_mode, preload_offset |-> preload_offset,
     preload_interval |-> preload_interval]

\* lines 68-70: the frames of one tracklet, built in order; the first
\* exception ends the loop
RECURSIVE BuildFrames(_, _, _)
BuildFrames(info, cfg, annos) ==
    IF annos = <<>> THEN [tag |-> "ok", val |-> <<>>, info |-> info]
    ELSE LET b == build_frame(info, cfg, annos[1])
         IN  IF b.res.tag = "err"
             THEN [tag |-> "err", val |-> b.res.val, info |-> b.info]
             ELSE LET rest == BuildFrames(b.info, cfg, Tail(annos))
                  IN  IF rest.tag = "err" THEN rest
                      ELSE [tag |-> "ok", val |-> <<b.res.val>> \o rest.val,
                            info |-> rest.info]

\* lines 78-81: the frames of a tracklet with their clouds cropped in place
CropFrames(frames, preload_offset) ==
    IF preload_offset > 0
    THEN [n \in DOMAIN frames |->
            [frames[n] EXCEPT !.pcd =
                crop_pcd_axis_aligned(frames[n].pcd, frames[n].bbox, preload_offset)]]
    ELSE frames

MaterializeCropFirst(frames, cfg, preload_offset) ==
    LET cropped == CropFrames(frames, preload_offset)
    IN  [comp_template_pcd |->
            merge_template_pcds([n \in DOMAIN cropped |-> cropped[n].pcd],
                                [n \in DOMAIN cropped |-> cropped[n].bbox],
                                cfg.model_offset, cfg.model_scale),
         frames |-> cropped]

\* lines 72-86: the materialization of one tracklet from its built frames
Materialize(frames, cfg, preload_offset) ==
    [comp_template_pcd |->
        merge_template_pcds([n \in DOMAIN frames |-> frames[n].pcd],
                            [n \in DOMAIN frames |-> frames[n].bbox],
                            cfg.model_offset, cfg.model_scale),
     frames |-> CropFrames(frames, preload_offset)]

\* lines 66-86: the loop over the tracklets
RECURSIVE BuildTracklets(_, _, _, _)
BuildTracklets(info, cfg, preload_offset, tas) ==
    IF tas = <<>> THEN [tag |-> "ok", val |-> <<>>, info |-> info]
    ELSE LET fr == BuildFrames(info, cfg, tas[1])
         IN  IF fr.tag = "err" THEN fr
             ELSE LET rest == BuildTracklets(fr.info, cfg, preload_offset, Tail(tas))
                  IN  IF rest.tag = "err" THEN rest
                      ELSE [tag |-> "ok",
                            val |-> <<Materialize(fr.val, cfg, preload_offset)>>
                                        \o rest.val,
                            info |-> rest.info]

None == [some |-> FALSE, val |-> <<>>]
Some(v) == [some |-> TRUE, val |-> v]

\* the fields of the instance that lines 35-52 set
NewObj(cfg, split_type) ==
    LET preload_interval == cfg.preload_interval
        tas == build_tracklet_annotations(
                   cfg, split_type, preload_interval,
                   split_type_to_scene_ids(cfg.debug, split_type))
        nums == [n \in DOMAIN tas |-> Len(tas[n])]
    IN  [cfg |-> cfg, split_type |-> split_type,
         preload_interval |-> preload_interval,
         preload_offset |-> preload_offset_of(cfg, split_type),
         cache |-> cache_of(cfg, split_type),
         calibration_info |-> <<>>,
         tracklet_annotations |-> tas,
         tracklet_num_frames |-> nums,
         tracklet_st_frame_id |-> StartIds(nums, 0),
         tracklet_ed_frame_id |-> EndIds(nums, 0),
         tracklets |-> None,
         origin |-> "disabled"]

CtorRet(cfg, split_type, out) ==
    [op |-> "__init__", obj |-> 0, args |-> <<cfg, split_type>>, out |-> out]

\* KITTIFull(split_type, cfg, log) in a fresh process: the instance of the
\* previous run is gone, the cache files are still there
Construct(cfg, split_type) ==
    /\ runs < MaxRuns
    /\ runs' = runs + 1
    /\ pending' = {}
    /\ UNCHANGED <<labels, calib, velodyne>>
    /\ IF ~CategorySupported(cfg)
       THEN /\ ret' = CtorRet(cfg, split_type, Err("AssertionError"))
            /\ objs' = <<>>
            /\ UNCHANGED disk
       ELSE LET o == NewObj(cfg, split_type)
                path == cache_file_dir(cfg, split_type, o.preload_offset,
                                       o.preload_interval)
            IN  IF \E n \in DOMAIN o.tracklet_num_frames : o.tracklet_num_frames[n] <= 0
                THEN /\ ret' = CtorRet(cfg, split_type, Err("AssertionError"))
                     /\ objs' = <<>>
                     /\ UNCHANGED disk
                ELSE IF ~o.cache
                THEN /\ objs' = <<o>>
                     /\ ret' = CtorRet(cfg, split_type, Ok("disabled"))
                     /\ UNCHANGED disk
                ELSE IF path \in DOMAIN disk
                THEN /\ objs' = <<[o EXCEPT !.tracklets = Some(disk[path]),
                                            !.origin = "hit"]>>
                     /\ ret' = CtorRet(cfg, split_type, Ok("hit"))
                     /\ UNCHANGED disk
                ELSE LET b == BuildTracklets(o.calibration_info, cfg,
                                             o.preload_offset, o.tracklet_annotations)
                     IN  IF b.tag = "err"
                         THEN /\ ret' = CtorRet(cfg, split_type, Err(b.val))
                              /\ objs' = <<>>
                              /\ UNCHANGED disk
                         ELSE /\ disk' = [q \in DOMAIN disk \cup {path} |->
                                            IF q = path THEN b.val ELSE disk[q]]
                              /\ objs' = <<[o EXCEPT !.tracklets = Some(b.val),
                                                     !.calibration_info = b.info,
                                                     !.origin = "miss"]>>
                              /\ ret' = CtorRet(cfg, split_type, Ok("miss"))

----------------------------------------------------------------------------
(* Accessors, lines 102-134 *)

num_tracklets(self) == Len(self.tracklet_annotations)

\* self.tracklet_ed_frame_id[-1]
num_frames(self) ==
    IF self.tracklet_ed_frame_id = <<>> THEN Err("IndexError")
    ELSE Ok(self.tracklet_ed_frame_id[Len(self.tracklet_ed_frame_id)])

num_tracklet_frames(self, tracklet_id) == self.tracklet_num_frames[tracklet_id + 1]

\* bisect.bisect_right(a, x): binary search for the first position whose
\* element exceeds x (positions are 0-based, a[mid] is a[mid + 1] here)
RECURSIVE BisectLeftFrom(_, _, _, _)
BisectLeftFrom(a, x, lo, hi) ==
    IF lo >= hi THEN lo
    ELSE LET mid == (lo + hi) \div 2
         IN  IF a[mid + 1] < x THEN BisectLeftFrom(a, x, mid + 1, hi)
             ELSE BisectLeftFrom(a, x, lo, mid)

RECURSIVE BisectRightFrom(_, _, _, _)
BisectRightFrom(a, x, lo, hi) ==
    IF lo >= hi THEN lo
    ELSE LET mid == (lo + hi) \div 2
         IN  IF x < a[mid + 1] THEN BisectRightFrom(a, x, lo, mid)
             ELSE BisectRightFrom(a, x, mid + 1, hi)

bisect_left(a, x) == BisectLeftFrom(a, x, 0, Len(a))

bisect_right(a, x) == BisectRightFrom(a, x, 0, Len(a))

GetTrackletFrameIdNoAssert(self, idx) ==
    LET tracklet_id == bisect_right(self.tracklet_ed_frame_id, idx)
    IN  IF tracklet_id >= Len(self.tracklet_st_frame_id) THEN Err("IndexError")
        ELSE Ok(<<tracklet_id, idx - self.tracklet_st_frame_id[tracklet_id + 1]>>)

\* lines 127-134
get_tracklet_frame_id(self, idx) ==
    LET tracklet_id == bisect_right(self.tracklet_ed_frame_id, idx)
    IN  IF tracklet_id >= Len(self.tracklet_st_frame_id) THEN Err("IndexError")
        ELSE IF ~(/\ self.tracklet_st_frame_id[tracklet_id + 1] <= idx
                  /\ idx < self.tracklet_ed_frame_id[tracklet_id + 1])
        THEN Err("AssertionError")
        ELSE Ok(<<tracklet_id, idx - self.tracklet_st_frame_id[tracklet_id + 1]>>)

\* "if self.tracklets:" is false for None and for the empty list
Truthy(tracklets) == tracklets.some /\ tracklets.val # <<>>

GetFrameNoCrop(self, tracklet_id, frame_id) ==
    IF Truthy(self.tracklets)
    THEN [res |-> Ok(self.tracklets.val[tracklet_id + 1].frames[frame_id + 1]),
          info |-> self.calibration_info]
    ELSE build_frame(self.calibration_info, self.cfg,
                     self.tracklet_annotations[tracklet_id + 1][frame_id + 1])

\* lines 111-121: the frame (or the exception) and the calibration store left
get_frame(self, tracklet_id, frame_id) ==
    IF Truthy(self.tracklets)
    THEN [res |-> Ok(self.tracklets.val[tracklet_id + 1].frames[frame_id + 1]),
          info |-> self.calibration_info]
    ELSE LET b == build_frame(self.calibration_info, self.cfg,
                     self.tracklet_annotations[tracklet_id + 1][frame_id + 1])
         IN  IF b.res.tag = "err" THEN b
             ELSE [res |-> Ok(CropFrames(<<b.res.val>>, self.preload_offset)[1]),
                   info |-> b.info]

\* lines 123-125
get_comp_template_pcd(self, tracklet_id) ==
    IF ~self.tracklets.some THEN Err("TypeError")
    ELSE IF tracklet_id >= Len(self.tracklets.val) THEN Err("IndexError")
    ELSE Ok(self.tracklets.val[tracklet_id + 1].comp_template_pcd)

ValidPairs(self) ==
    {<<t, f>> \in (0..(num_tracklets(self) - 1)) \X (0..MaxTrackLen) :
        f < num_tracklet_frames(self, t)}

CallRet(op, i, args, out) == [op |-> op, obj |-> i, args |-> args, out |-> out]

NumTracklets(i) ==
    /\ ret' = CallRet("num_tracklets", i, <<>>, Ok(num_tracklets(objs[i])))
    /\ UNCHANGED <<labels, calib, velodyne, disk, objs, runs, pending>>

NumFrames(i) ==
    /\ ret' = CallRet("num_frames", i, <<>>, num_frames(objs[i]))
    /\ UNCHANGED <<labels, calib, velodyne, disk, objs, runs, pending>>

NumTrackletFrames(i, t) ==
    /\ t < num_tracklets(objs[i])
    /\ ret' = CallRet("num_tracklet_frames", i, <<t>>,
                      Ok(num_tracklet_frames(objs[i], t)))
    /\ UNCHANGED <<labels, calib, velodyne, disk, objs, runs, pending>>

GetTrackletFrameId(i, idx) ==
    /\ ret' = CallRet("get_tracklet_frame_id", i, <<idx>>,
                      get_tracklet_frame_id(objs[i], idx))
    /\ UNCHANGED <<labels, calib, velodyne, disk, objs, runs, pending>>

GetFrame(i, t, f) ==
    /\ <<t, f>> \in ValidPairs(objs[i])
    /\ LET r == get_frame(objs[i], t, f)
       IN  /\ objs' = [objs EXCEPT ![i].calibration_info = r.info]
           /\ ret' = CallRet("get_frame", i, <<t, f>>, r.res)
    /\ UNCHANGED <<labels, calib, velodyne, disk, runs, pending>>

\* get_frame of a second caller, up to line 204: the scene is not in the
\* calibration store, the caller goes on to read the file
GetFrameLookup(i, t, f) ==
    /\ <<t, f>> \in ValidPairs(objs[i])
    /\ ~Truthy(objs[i].tracklets)
    /\ objs[i].tracklet_annotations[t + 1][f + 1].scene
          \notin DOMAIN objs[i].calibration_info
    /\ Cardinality(pending) < MaxCallers
    /\ pending' = pending \cup {<<t, f>>}
    /\ UNCHANGED <<labels, calib, velodyne, disk, objs, runs, ret>>

\* the rest of that get_frame, lines 207-247 and 118-121: the file is read and
\* the entry stored whatever another caller stored meanwhile
GetFrameStore(i, t, f) ==
    /\ <<t, f>> \in pending
    /\ pending' = pending \ {<<t, f>>}
    /\ LET scene_id == objs[i].tracklet_annotations[t + 1][f + 1].scene
           rd == read_calibration_file(calib[scene_id])
       IN  IF rd.tag = "err"
           THEN /\ ret' = CallRet("get_frame", i, <<t, f>>, rd)
                /\ UNCHANGED objs
           ELSE LET info == Put(objs[i].calibration_info, scene_id, rd.val)
                    r == get_frame([objs[i] EXCEPT !.calibration_info = info], t, f)
                IN  /\ objs' = [objs EXCEPT ![i].calibration_info = r.info]
                    /\ ret' = CallRet("get_frame", i, <<t, f>>, r.res)
    /\ UNCHANGED <<labels, calib, velodyne, disk, runs>>

GetCompTemplatePcd(i, t) ==
    /\ t < num_tracklets(objs[i])
    /\ ret' = CallRet("get_comp_template_pcd", i, <<t>>,
                      get_comp_template_pcd(objs[i], t))
    /\ UNCHANGED <<labels, calib, velodyne, disk, objs, runs, pending>>

----------------------------------------------------------------------------
(* The data root: label tables, calibration files, velodyne files *)

Scenes == 0..20

Row(frame, track_id, type, x) ==
    [frame |-> frame, track_id |-> track_id, type |-> type, x |-> x, length |-> 1]

\* rows in file order (not sorted by frame), several tracks and categories;
\* no Cyclist anywhere
Table ==
    [s \in Scenes |->
        CASE s = 0  -> <<Row(2, 1, "Car", 5), Row(0, 1, "Car", 3), Row(0, 0, "Van", 8),
                         Row(1, 1, "Car", 4), Row(0, 2, "Tram", 6)>>
          [] s = 1  -> <<Row(3, 0, "Car", 2), Row(1, 0, "Car", 1)>>
          [] s = 17 -> <<Row(0, 0, "Car", 6)>>
          [] s = 18 -> <<Row(1, 0, "Car", 4), Row(0, 0, "Car", 3),
                         Row(0, 1, "Pedestrian", 7)>>
          [] s = 19 -> <<Row(2, 4, "Car", 2)>>
          [] OTHER  -> <<>>]

CalibFile(t) ==
    [exists |-> TRUE,
     lines |-> <<[key |-> "P0", numeric |-> TRUE, t |-> 0],
                 [key |-> "calib_time", numeric |-> FALSE, t |-> 0],
                 [key |-> "Tr_velo_cam", numeric |-> TRUE, t |-> t]>>]

CalibFileNoKey ==
    [exists |-> TRUE, lines |-> <<[key |-> "P0", numeric |-> TRUE, t |-> 0]>>]

NoFile == [exists |-> FALSE, lines |-> <<>>]

\* the scenes of debug mode (0, 18, 19) are calibrated; scene 1 has no
\* calibration file and scene 17 a file without Tr_velo_cam
CalibFiles ==
    [s \in Scenes |->
        CASE s = 1  -> NoFile
          [] s = 17 -> CalibFileNoKey
          [] OTHER  -> CalibFile(1 + (s % 2))]

\* the scan of a frame: points near and far from every labelled object
PointsOf(row) == {row.x - 3, row.x - 1, row.x, row.x + 2}

\* one file per labelled (scene, frame) but the absent ones (sensor dropouts)
Scans(table, absent) ==
    [sf \in {p \in Scenes \X (0..3) :
                /\ \E n \in DOMAIN table[p[1]] : table[p[1]][n].frame = p[2]
                /\ p \notin absent} |->
        UNION {PointsOf(table[sf[1]][n]) :
                  n \in {m \in DOMAIN table[sf[1]] : table[sf[1]][m].frame = sf[2]}}]

Dropouts == {<<0, 1>>, <<18, 0>>}

----------------------------------------------------------------------------
(* The configurations drawn: a base configuration and every configuration   *)
(* that differs from it in one option, under every caching setting          *)

BaseCfg == MkCfg("Car", "camera", 1, IntInterval(1), TRUE, TRUE, FALSE, 0, 1)

CfgSpace ==
    [category_name : {"Car", "All", "Cyclist", "Truck"},
     coordinate_mode : {"camera", "velodyne", "lidar"},
     preload_offset : {0, 1},
     preload_interval : {IntInterval(1), IntInterval(2)},
     debug : BOOLEAN, cache_train : BOOLEAN, cache_eval : BOOLEAN,
     model_offset : {0, 1}, model_scale : {1, 2}]

Options ==
    {"category_name", "coordinate_mode", "preload_offset", "preload_interval",
     "debug", "model_offset", "model_scale"}

\* one of the two caching flags is set, so each configuration is seen cached
\* on one role and uncached on the other
Configs ==
    {c \in CfgSpace :
        /\ Cardinality({o \in Options : c[o] # BaseCfg[o]}) <= 1
        /\ c.cache_train # c.cache_eval}

----------------------------------------------------------------------------
(* The program: constructions over one data root, calls on the instances *)

NoCall == [op |-> "none", obj |-> 0, args |-> <<>>, out |-> Ok("none")]

Init ==
    /\ labels = Table
    /\ calib = CalibFiles
    /\ velodyne = Scans(Table, Dropouts)
    /\ disk = <<>>
    /\ objs = <<>>
    /\ runs = 0
    /\ pending = {}
    /\ ret = NoCall

TotalFrames(self) == SumSeq(self.tracklet_num_frames)

Next ==
    \/ \E cfg \in Configs, split_type \in {"train", "val"} :
          Construct(cfg, split_type)
    \/ \E i \in DOMAIN objs : NumTracklets(i)
    \/ \E i \in DOMAIN objs : NumFrames(i)
    \/ \E i \in DOMAIN objs, t \in 0..MaxTrackLen : NumTrackletFrames(i, t)
    \/ \E i \in DOMAIN objs : \E idx \in (-1)..TotalFrames(objs[i]) :
          GetTrackletFrameId(i, idx)
    \/ \E i \in DOMAIN objs : \E tf \in ValidPairs(objs[i]) : GetFrame(i, tf[1], tf[2])
    \/ \E i \in DOMAIN objs, t \in 0..MaxTrackLen : GetCompTemplatePcd(i, t)

Spec == Init /\ [][Next]_vars

----------------------------------------------------------------------------
(* Subsampling on one physical track: a data root whose debug scenes hold   *)
(* one Car track of n records, listed in ascending or descending frame      *)
(* order, and one record of another category under the same track id        *)

SubScenes == {0, 18, 19}

FrameAt(q) == 3 * q + 1

TrackRows(n, descending) ==
    <<Row(0, 7, "Tram", 0)>> \o
    [m \in 1..n |-> IF descending
                    THEN Row(FrameAt(n - m), 7, "Car", n - m)
                    ELSE Row(FrameAt(m - 1), 7, "Car", m - 1)]

TrackTable(n, descending) ==
    [s \in Scenes |-> IF s \in SubScenes THEN TrackRows(n, descending) ELSE <<>>]

SubConfigs ==
    {MkCfg("Car", "camera", 0, ivl, TRUE, FALSE, FALSE, 0, 1) :
        ivl \in {IntInterval(k) : k \in 1..MaxInterval} \cup {AllIntervals}}

InitSub ==
    /\ \E n \in 1..MaxTrackLen, descending \in BOOLEAN :
          labels = TrackTable(n, descending)
    /\ calib = CalibFiles
    /\ velodyne = <<>>
    /\ disk = <<>>
    /\ objs = <<>>
    /\ runs = 0
    /\ pending = {}
    /\ ret = NoCall

NextSub ==
    \/ \E cfg \in SubConfigs, split_type \in Splits : Construct(cfg, split_type)
    \/ \E i \in DOMAIN objs : NumTracklets(i)

SpecSub == InitSub /\ [][NextSub]_vars

----------------------------------------------------------------------------
(* Concurrent callers of one instance: get_frame is split at the calibration *)
(* store, so that callers interleave between the lookup and the store        *)

ConcConfigs ==
    {c \in Configs : \A o \in Options \ {"debug"} : c[o] = BaseCfg[o]}

NextConc ==
    \/ \E cfg \in ConcConfigs, split_type \in Splits : Construct(cfg, split_type)
    \/ \E i \in DOMAIN objs : NumTracklets(i)
    \/ \E i \in DOMAIN objs : NumFrames(i)
    \/ \E i \in DOMAIN objs, t \in 0..MaxTrackLen : NumTrackletFrames(i, t)
    \/ \E i \in DOMAIN objs : \E idx \in (-1)..TotalFrames(objs[i]) :
          GetTrackletFrameId(i, idx)
    \/ \E i \in DOMAIN objs : \E tf \in ValidPairs(objs[i]) : GetFrame(i, tf[1], tf[2])
    \/ \E i \in DOMAIN objs : \E tf \in ValidPairs(objs[i]) :
          GetFrameLookup(i, tf[1], tf[2])
    \/ \E i \in DOMAIN objs : \E tf \in pending : GetFrameStore(i, tf[1], tf[2])

SpecConc == Init /\ [][NextConc]_vars

----------------------------------------------------------------------------
(* The cache: constructions with caching enabled or disabled, with and      *)
(* without a crop offset, with a template region inside or beyond the crop  *)
(* region, over the calibrated scenes of debug mode; one configuration      *)
(* whose frames cannot be built                                             *)

TplConfigs ==
    {MkCfg("Car", "camera", off, IntInterval(1), TRUE, cache, cache, moff, 1) :
        off \in {0, 1}, moff \in {0, 2}, cache \in BOOLEAN}
    \cup {MkCfg("Car", "lidar", 0, IntInterval(1), TRUE, TRUE, TRUE, 0, 1)}

NextTpl ==
    \/ \E cfg \in TplConfigs, split_type \in {"train", "val"} :
          Construct(cfg, split_type)
    \/ \E i \in DOMAIN objs : \E tf \in ValidPairs(objs[i]) : GetFrame(i, tf[1], tf[2])
    \/ \E i \in DOMAIN objs, t \in 0..MaxTrackLen : GetCompTemplatePcd(i, t)

SpecTpl == Init /\ [][NextTpl]_vars

----------------------------------------------------------------------------
(* Ordering of the tracklet list and index misuse: the data root above      *)
(* (several scenes, several tracks per scene, rows out of order, no record  *)
(* of one category), fixed and exhaustive subsampling, every role, caching  *)
(* disabled                                                                 *)

OrdConfigs ==
    {MkCfg(cat, "camera", 0, ivl, dbg, FALSE, FALSE, 0, 1) :
        cat \in {"Car", "All", "Cyclist"},
        ivl \in {IntInterval(1), IntInterval(2), AllIntervals},
        dbg \in BOOLEAN}

NextOrd ==
    \/ \E cfg \in OrdConfigs, split_type \in Splits : Construct(cfg, split_type)
    \/ \E i \in DOMAIN objs : \E idx \in (-1)..TotalFrames(objs[i]) :
          GetTrackletFrameId(i, idx)
    \/ \E i \in DOMAIN objs, t \in 0..MaxTrackLen : GetCompTemplatePcd(i, t)

SpecOrd == Init /\ [][NextOrd]_vars

----------------------------------------------------------------------------
(* Global index *)

\* the pairs (t, f) with 0 <= t < num_tracklets() and 0 <= f < num_tracklet_frames(t)
FramePairs(self) ==
    {<<t, f>> \in (0..(num_tracklets(self) - 1)) \X (0..(TotalFrames(self))) :
        f < num_tracklet_frames(self, t)}

\* r is the pair the claim names for the global index g
Resolves(self, g, r) ==
    /\ r.tag = "ok"
    /\ r.val \in FramePairs(self)
    /\ \A u \in 0..(num_tracklets(self) - 1) :
          (g < self.tracklet_ed_frame_id[u + 1]) => r.val[1] <= u
    /\ self.tracklet_st_frame_id[r.val[1] + 1] <= g
    /\ g < self.tracklet_ed_frame_id[r.val[1] + 1]
    /\ r.val[2] = g - self.tracklet_st_frame_id[r.val[1] + 1]

\* C1: for every global index g with 0 <= g < num_frames(),
\* get_tracklet_frame_id(g) returns (t, f) with t the smallest tracklet id such
\* that g < end[t], start[t] <= g < end[t] and f = g - start[t]; over the valid
\* g the mapping is a bijection onto the pairs (t, f) with 0 <= t <
\* num_tracklets() and 0 <= f < num_tracklet_frames(t).
C1_ResolveIsBijection ==
    \A i \in DOMAIN objs :
        LET self == objs[i]
            valid == IF num_frames(self).tag = "ok"
                     THEN 0..(num_frames(self).val - 1) ELSE {}
        IN  /\ \A g \in valid : Resolves(self, g, get_tracklet_frame_id(self, g))
            /\ \A g, h \in valid :
                  get_tracklet_frame_id(self, g) = get_tracklet_frame_id(self, h)
                      => g = h
            /\ \A tf \in FramePairs(self) :
                  \E g \in valid : get_tracklet_frame_id(self, g) = Ok(tf)
            /\ (ret.op = "get_tracklet_frame_id" /\ ret.args[1] \in valid)
                  => Resolves(self, ret.args[1], ret.out)

\* a call resolved an index into a later frame of a later tracklet
C1_Witness ==
    /\ ret.op = "get_tracklet_frame_id"
    /\ ret.out.tag = "ok"
    /\ ret.out.val[1] >= 1
    /\ ret.out.val[2] >= 1

\* C2: for every constructed instance, whatever the number of tracklets (zero
\* included), num_frames() returns the sum of num_tracklet_frames(i) over all i
\* in 0..num_tracklets()-1.
C2_NumFramesIsSum ==
    \A i \in DOMAIN objs :
        /\ num_frames(objs[i]) =
              Ok(SumSeq([t \in 1..num_tracklets(objs[i]) |->
                            num_tracklet_frames(objs[i], t - 1)]))
        /\ ret.op = "num_frames" => ret.out.tag = "ok"

----------------------------------------------------------------------------
(* Subsampling: what a track of the generated data root must yield *)

\* the Car rows of a scene and the one of rank q (0-based) by frame number
CarRows(scene_id) ==
    {m \in DOMAIN labels[scene_id] : labels[scene_id][m].type = "Car"}

RowOfRank(scene_id, q) ==
    labels[scene_id][CHOOSE m \in CarRows(scene_id) :
        Cardinality({o \in CarRows(scene_id) :
            labels[scene_id][o].frame < labels[scene_id][m].frame}) = q]

\* tracklet is the records at positions p, p+k, p+2k, ... of the sorted track
IsPhase(tracklet, scene_id, n, p, k) ==
    /\ Len(tracklet) = Cardinality({q \in 0..(n - 1) : q >= p /\ (q - p) % k = 0})
    /\ Len(tracklet) >= 1
    /\ \A j \in 1..Len(tracklet) :
          /\ tracklet[j].scene = scene_id
          /\ tracklet[j].track_id = RowOfRank(scene_id, p + (j - 1) * k).track_id
          /\ tracklet[j].frame = RowOfRank(scene_id, p + (j - 1) * k).frame
          /\ tracklet[j].x = RowOfRank(scene_id, p + (j - 1) * k).x

\* the number of (tracklet, position) places that hold the record of rank q
Occurrences(tas, scene_id, q) ==
    Cardinality({pj \in (DOMAIN tas) \X (1..MaxTrackLen + 1) :
                    /\ pj[2] <= Len(tas[pj[1]])
                    /\ tas[pj[1]][pj[2]].frame = RowOfRank(scene_id, q).frame})

SceneOf(self) == split_type_to_scene_ids(self.cfg.debug, self.split_type)[1]

\* C3: in fixed-interval mode with interval k >= 1 a track of n >= 1 records
\* yields exactly min(n, k) tracklets; the tracklet of phase p is the records at
\* positions p, p+k, p+2k, ... in order; every tracklet is non-empty and every
\* record of the track appears in exactly one tracklet; k = 1 yields the whole
\* sorted track, k = 3 on 7 records yields tracklets of lengths 3, 2, 2.
C3_FixedInterval ==
    \A i \in DOMAIN objs :
        LET self == objs[i]
            tas == self.tracklet_annotations
            sc == SceneOf(self)
            n == Cardinality(CarRows(sc))
            k == self.preload_interval.k
        IN  self.preload_interval.lit = "int" =>
              /\ Len(tas) = Min(n, k)
              /\ \A p \in 0..(Min(n, k) - 1) : IsPhase(tas[p + 1], sc, n, p, k)
              /\ \A q \in 0..(n - 1) : Occurrences(tas, sc, q) = 1
              /\ k = 1 => (Len(tas) = 1 /\ Len(tas[1]) = n)
              /\ (k = 3 /\ n = 7) => [p \in 1..3 |-> Len(tas[p])] = <<3, 2, 2>>
              /\ ret.op = "num_tracklets" => ret.out = Ok(Min(n, k))

\* interval 3 was applied to a track of 7 records
C3_Witness ==
    /\ objs # <<>>
    /\ objs[1].preload_interval = IntInterval(3)
    /\ Cardinality(CarRows(SceneOf(objs[1]))) = 7
    /\ Len(objs[1].tracklet_annotations) = 3

\* the interval set the claim gives for each role
ClaimedIntervals(split_type) ==
    IF split_type = "train" THEN <<1, 2, 3, 5, 10>> ELSE <<5>>

\* tracklets emitted before the block of the m-th interval
BlockStart(ivs, n, m) == SumSeq([l \in 1..(m - 1) |-> Min(n, ivs[l])])

\* C4: in exhaustive mode the interval set is {1,2,3,5,10} for the split
\* 'train' and {5} for every other split; the tracklets of a track of n records
\* are the concatenation, over the intervals in listed order, of the
\* fixed-interval output, so the track yields the sum over k of min(n, k)
\* tracklets and each record appears in exactly one tracklet per interval.
C4_Exhaustive ==
    \A i \in DOMAIN objs :
        LET self == objs[i]
            tas == self.tracklet_annotations
            sc == SceneOf(self)
            n == Cardinality(CarRows(sc))
            ivs == ClaimedIntervals(self.split_type)
        IN  self.preload_interval.lit = "all" =>
              /\ Len(tas) = SumSeq([m \in 1..Len(ivs) |-> Min(n, ivs[m])])
              /\ \A m \in 1..Len(ivs) : \A p \in 0..(Min(n, ivs[m]) - 1) :
                    IsPhase(tas[BlockStart(ivs, n, m) + p + 1], sc, n, p, ivs[m])
              /\ \A q \in 0..(n - 1) :
                    Occurrences(tas, sc, q) =
                        (IF self.split_type = "train" THEN 5 ELSE 1)

\* exhaustive mode on the training role with a track longer than every interval
C4_Witness ==
    /\ objs # <<>>
    /\ objs[1].preload_interval = AllIntervals
    /\ objs[1].split_type = "train"
    /\ Cardinality(CarRows(SceneOf(objs[1]))) > 10
    /\ Len(objs[1].tracklet_annotations) = 21

----------------------------------------------------------------------------
(* Frames: cached and uncached access, cropping, faults *)

\* the instance a construction of the same configuration with caching
\* disabled yields
Uncached(self) ==
    NewObj([self.cfg EXCEPT !.cache_train = FALSE, !.cache_eval = FALSE],
           self.split_type)

\* C5: for the same configuration and unchanged input data get_frame(t, f)
\* returns the same frame (bounding box, point cloud after the optional crop,
\* source record) for every valid (t, f) whether caching is disabled (frame
\* built on demand), enabled with a cache miss, or enabled with a cache hit on
\* the blob the miss run persisted.
C5_CachedEqualsUncached ==
    \A i \in DOMAIN objs :
        LET fresh == Uncached(objs[i])
        IN
        /\ \A tf \in FramePairs(objs[i]) :
              get_frame(objs[i], tf[1], tf[2]).res = get_frame(fresh, tf[1], tf[2]).res
        /\ (ret.op = "get_frame" /\ ret.obj = i)
              => ret.out = get_frame(fresh, ret.args[1], ret.args[2]).res
        /\ objs[i].origin = "hit"
              => objs[i].tracklets.val =
                    disk[cache_file_dir(objs[i].cfg, objs[i].split_type,
                                        objs[i].preload_offset,
                                        objs[i].preload_interval)]

\* the frame as _build_frame produces it, before any crop
Built(self, tf) ==
    build_frame(self.calibration_info, self.cfg,
                self.tracklet_annotations[tf[1] + 1][tf[2] + 1]).res

\* a frame was read from an instance that loaded the blob of an earlier run,
\* and the crop had removed points from its cloud
C5_Witness ==
    /\ objs # <<>>
    /\ objs[1].origin = "hit"
    /\ ret.op = "get_frame"
    /\ ret.out.tag = "ok"
    /\ ret.out.val.pcd # Built(objs[1], ret.args).val.pcd

\* the materialization a cache-miss build under the configuration of the
\* instance produces
OwnMaterialization(self) ==
    BuildTracklets(<<>>, self.cfg, self.preload_offset, self.tracklet_annotations).val

\* C6: distinct configurations never collide on a cache artifact: over any
\* sequence of constructions sharing one data root no construction loads a
\* blob written under a configuration that produces a different
\* materialization (template-merge offset and scale included).
C6_NoCollision ==
    \A i \in DOMAIN objs :
        objs[i].origin = "hit" => objs[i].tracklets.val = OwnMaterialization(objs[i])

\* the cloud of frame tf of the instance is cropped by offset / is untouched
IsCropped(self, tf, offset) ==
    get_frame(self, tf[1], tf[2]).res.val.pcd =
        {p \in Built(self, tf).val.pcd :
            Abs(p - Built(self, tf).val.bbox.center)
                <= Built(self, tf).val.bbox.size + offset}

IsUncropped(self, tf) ==
    get_frame(self, tf[1], tf[2]).res.val.pcd = Built(self, tf).val.pcd

\* the frames of the instance that can be built
Buildable(self) == {tf \in FramePairs(self) : Built(self, tf).tag = "ok"}

\* C7 as stated: with a positive crop offset configured every frame (any
\* split, caching enabled or disabled) carries the cloud cropped to the box
\* expanded by that offset; with an offset <= 0 the cloud is left uncropped.
C7_CropsOnEverySplit ==
    \A i \in DOMAIN objs : \A tf \in Buildable(objs[i]) :
        IF objs[i].cfg.preload_offset > 0
        THEN IsCropped(objs[i], tf, objs[i].cfg.preload_offset)
        ELSE IsUncropped(objs[i], tf)

\* C7 amended: with a positive crop offset configured and the split 'train'
\* every frame (caching enabled or disabled) carries the cloud cropped to the
\* box expanded by that offset; with an offset <= 0, or on any other split
\* whatever the offset, the cloud is left uncropped.
C7_CropsOnTrainOnly ==
    \A i \in DOMAIN objs : \A tf \in Buildable(objs[i]) :
        /\ IF objs[i].cfg.preload_offset > 0 /\ objs[i].split_type = "train"
           THEN IsCropped(objs[i], tf, objs[i].cfg.preload_offset)
           ELSE IsUncropped(objs[i], tf)
        /\ (ret.op = "get_frame" /\ ret.args = tf)
              => ret.out = get_frame(objs[i], tf[1], tf[2]).res

\* an evaluation instance with a positive offset configured served, from its
\* cache, a frame whose cloud the crop would have cut
C7_Witness ==
    /\ objs # <<>>
    /\ objs[1].split_type = "val"
    /\ objs[1].cfg.preload_offset > 0
    /\ objs[1].origin = "hit"
    /\ ret.op = "get_frame"
    /\ ret.out.tag = "ok"
    /\ ~IsCropped(objs[1], ret.args, objs[1].cfg.preload_offset)

\* the scenes whose calibration the frames of the instance need
NeededScenes(self) ==
    {sc \in Scenes : \E n \in DOMAIN self.tracklet_annotations :
        \E m \in DOMAIN self.tracklet_annotations[n] :
            self.tracklet_annotations[n][m].scene = sc}

\* one of the faults of the claim is present for this configuration
Faulty(cfg, split_type) ==
    \/ cfg.category_name \notin {"Van", "Car", "Pedestrian", "Cyclist", "All"}
    \/ cfg.coordinate_mode \notin {"camera", "velodyne"}
    \/ \E sc \in NeededScenes(NewObj(cfg, split_type)) :
          \/ ~calib[sc].exists
          \/ \A n \in DOMAIN calib[sc].lines : calib[sc].lines[n].key # "Tr_velo_cam"

\* C8: a missing calibration file, a calibration file without Tr_velo_cam, an
\* unsupported coordinate mode or an unsupported category aborts construction
\* under every caching setting: construction ends in an error and no dataset
\* instance becomes usable.
C8_FaultAbortsConstruction ==
    /\ \A i \in DOMAIN objs : ~Faulty(objs[i].cfg, objs[i].split_type)
    /\ (ret.op = "__init__" /\ Faulty(ret.args[1], ret.args[2]))
          => ret.out.tag = "err"

\* the calibration file of the scene can be read and holds Tr_velo_cam
CalibUsable(sc) ==
    /\ calib[sc].exists
    /\ \E n \in DOMAIN calib[sc].lines :
          calib[sc].lines[n].key = "Tr_velo_cam" /\ calib[sc].lines[n].numeric

\* the translation its last Tr_velo_cam line gives
TrVeloCam(sc) ==
    calib[sc].lines[CHOOSE n \in DOMAIN calib[sc].lines :
        /\ calib[sc].lines[n].key = "Tr_velo_cam" /\ calib[sc].lines[n].numeric
        /\ \A m \in DOMAIN calib[sc].lines :
              (calib[sc].lines[m].key = "Tr_velo_cam" /\ calib[sc].lines[m].numeric)
                  => m <= n].t

AnnoAt(self, tf) == self.tracklet_annotations[tf[1] + 1][tf[2] + 1]

\* the frames of the instance whose velodyne file is absent
Dropped(self) ==
    {tf \in FramePairs(self) :
        <<AnnoAt(self, tf).scene, AnnoAt(self, tf).frame>> \notin DOMAIN velodyne}

\* C9: when the point-cloud file of a frame is absent, building the frame does
\* not raise: it returns a frame whose cloud is the single placeholder point at
\* the origin and whose bounding box and source record are what they are with
\* the file present; a cache-miss construction over tracklets with such frames
\* still completes and persists all tracklets.
C9_DropoutYieldsPlaceholder ==
    /\ \A i \in DOMAIN objs : \A tf \in Dropped(objs[i]) :
          LET a == AnnoAt(objs[i], tf)
              mode == objs[i].cfg.coordinate_mode
          IN  (CalibUsable(a.scene) /\ mode \in {"camera", "velodyne"}) =>
                /\ Built(objs[i], tf).tag = "ok"
                /\ Built(objs[i], tf).val.pcd = {0}
                /\ Built(objs[i], tf).val.anno = a
                /\ Built(objs[i], tf).val.bbox.center =
                      (IF mode = "camera" THEN a.x ELSE a.x - TrVeloCam(a.scene))
                /\ Built(objs[i], tf).val.bbox =
                      make_bbox(a, mode, TrVeloCam(a.scene))
    /\ \A i \in DOMAIN objs :
          objs[i].origin = "miss" =>
            /\ Len(objs[i].tracklets.val) = num_tracklets(objs[i])
            /\ \A t \in 1..num_tracklets(objs[i]) :
                  Len(objs[i].tracklets.val[t].frames) = objs[i].tracklet_num_frames[t]
            /\ disk[cache_file_dir(objs[i].cfg, objs[i].split_type,
                                   objs[i].preload_offset, objs[i].preload_interval)]
                  = objs[i].tracklets.val
            /\ \A tf \in Dropped(objs[i]) :
                  objs[i].preload_offset <= 0 =>
                      objs[i].tracklets.val[tf[1] + 1].frames[tf[2] + 1].pcd = {0}
    /\ (ret.op = "__init__" /\ ret.out.tag = "err")
          => Faulty(ret.args[1], ret.args[2])

\* a cache-miss construction completed over a tracklet with a dropped scan and
\* holds the placeholder for it
C9_Witness ==
    /\ objs # <<>>
    /\ objs[1].origin = "miss"
    /\ \E tf \in Dropped(objs[1]) :
          objs[1].tracklets.val[tf[1] + 1].frames[tf[2] + 1].pcd = Placeholder

----------------------------------------------------------------------------
(* Writes after construction *)

\* C10 as stated: after construction no call of get_frame,
\* get_tracklet_frame_id, num_frames, num_tracklets or num_tracklet_frames, in
\* any interleaving of callers and in either caching mode, writes to any field
\* of the dataset (calibration store included).
C10_CallsWriteNothing == [][runs' = runs => objs' = objs]_vars

\* what one call may change: nothing but the calibration store, which only
\* gains the entry of the scene of the frame get_frame was asked to build
OnlyMemoizes(old, new) ==
    /\ [new EXCEPT !.calibration_info = old.calibration_info] = old
    /\ \A sc \in DOMAIN old.calibration_info :
          /\ sc \in DOMAIN new.calibration_info
          /\ new.calibration_info[sc] = old.calibration_info[sc]
    /\ (DOMAIN new.calibration_info # DOMAIN old.calibration_info) =>
          /\ ret'.op = "get_frame"
          /\ ~Truthy(old.tracklets)
          /\ DOMAIN new.calibration_info =
                DOMAIN old.calibration_info \cup {AnnoAt(old, ret'.args).scene}
          /\ calib[AnnoAt(old, ret'.args).scene].exists

\* C10 amended: after construction no call writes the tracklet list, the index
\* boundaries, the materializations or any other field but the calibration
\* store; get_frame on an instance that holds no (non-empty) materialization
\* adds to the calibration store the entry of the requested frame's scene when
\* it is not stored yet; stored entries are never changed or removed.
C10_CallsOnlyMemoizeCalibration ==
    [][runs' = runs =>
          /\ DOMAIN objs' = DOMAIN objs
          /\ \A i \in DOMAIN objs : OnlyMemoizes(objs[i], objs'[i])]_vars

\* get_frame on an instance without caching left two scenes in its store
\* while another get_frame was between its lookup and its store
C10_Witness ==
    /\ objs # <<>>
    /\ objs[1].origin = "disabled"
    /\ ret.op = "get_frame"
    /\ Cardinality(DOMAIN objs[1].calibration_info) >= 2
    /\ \E tf \in pending :
          AnnoAt(objs[1], tf).scene \in DOMAIN objs[1].calibration_info

----------------------------------------------------------------------------
(* Ordering of the tracklet list *)

\* the rows of a scene that survive the category filter and belong to a track
KeptOf(cfg, scene_id, tid) ==
    {m \in DOMAIN labels[scene_id] :
        /\ KeepRow(cfg, labels[scene_id][m])
        /\ labels[scene_id][m].track_id = tid}

\* the row of rank q (0-based) by frame number among them
KeptOfRank(cfg, scene_id, tid, q) ==
    labels[scene_id][CHOOSE m \in KeptOf(cfg, scene_id, tid) :
        Cardinality({o \in KeptOf(cfg, scene_id, tid) :
            labels[scene_id][o].frame < labels[scene_id][m].frame}) = q]

AllTrackIds ==
    UNION {{labels[s][m].track_id : m \in DOMAIN labels[s]} : s \in Scenes}

\* the interval list of an instance: the role's list in exhaustive mode
IntervalsOf(self) ==
    IF self.preload_interval.lit = "all" THEN ClaimedIntervals(self.split_type)
    ELSE <<self.preload_interval.k>>

\* (scene position, track id, interval position, phase) of every tracklet due
OrderKeys(self) ==
    LET scene_ids == split_type_to_scene_ids(self.cfg.debug, self.split_type)
        ivs == IntervalsOf(self)
    IN  {key \in (DOMAIN scene_ids) \X AllTrackIds \X (DOMAIN ivs) \X (0..9) :
            key[4] < Min(Cardinality(KeptOf(self.cfg, scene_ids[key[1]], key[2])),
                         ivs[key[3]])}

RECURSIVE LexLess(_, _)
LexLess(a, b) ==
    /\ a # <<>>
    /\ \/ a[1] < b[1]
       \/ a[1] = b[1] /\ LexLess(Tail(a), Tail(b))

KeyRank(self, key) == Cardinality({k \in OrderKeys(self) : LexLess(k, key)})

\* tracklet is the records of ranks p, p+k, p+2k, ... of the track of the key
IsTrackletOfKey(tracklet, self, key) ==
    LET scene_id == split_type_to_scene_ids(self.cfg.debug, self.split_type)[key[1]]
        n == Cardinality(KeptOf(self.cfg, scene_id, key[2]))
        k == IntervalsOf(self)[key[3]]
        p == key[4]
    IN  /\ Len(tracklet) = Cardinality({q \in 0..(n - 1) : q >= p /\ (q - p) % k = 0})
        /\ \A j \in 1..Len(tracklet) :
              LET row == KeptOfRank(self.cfg, scene_id, key[2], p + (j - 1) * k)
              IN  /\ tracklet[j].scene = scene_id
                  /\ tracklet[j].track_id = key[2]
                  /\ tracklet[j].frame = row.frame
                  /\ tracklet[j].x = row.x

\* C11: the tracklet list is ordered lexicographically by (position of the
\* scene in the scene-id list, track id ascending, position of the interval in
\* the role's interval list in exhaustive mode, phase ascending); within each
\* tracklet the records are in ascending frame number; global frame indices
\* are assigned in exactly that order.
C11_TrackletOrder ==
    \A i \in DOMAIN objs :
        LET self == objs[i]
            tas == self.tracklet_annotations
            keys == OrderKeys(self)
            valid == IF num_frames(self).tag = "ok"
                     THEN 0..(num_frames(self).val - 1) ELSE {}
        IN  /\ Len(tas) = Cardinality(keys)
            /\ \A key \in keys : IsTrackletOfKey(tas[KeyRank(self, key) + 1], self, key)
            /\ \A n \in DOMAIN tas : \A j \in 1..(Len(tas[n]) - 1) :
                  tas[n][j].frame < tas[n][j + 1].frame
            /\ \A g, h \in valid :
                  g < h => LexLess(get_tracklet_frame_id(self, g).val,
                                   get_tracklet_frame_id(self, h).val)
            /\ (ret.op = "get_tracklet_frame_id" /\ ret.args[1] \in valid) =>
                  /\ ret.out.tag = "ok"
                  /\ ret.args[1] =
                        SumSeq([u \in 1..ret.out.val[1] |-> Len(tas[u])]) + ret.out.val[2]

\* exhaustive mode on the training scenes with every category: two scenes
\* with tracks, two tracks in one scene, and an index resolved into the
\* second scene
C11_Witness ==
    /\ objs # <<>>
    /\ objs[1].preload_interval = AllIntervals
    /\ objs[1].split_type = "train"
    /\ objs[1].cfg.category_name = "All"
    /\ ~objs[1].cfg.debug
    /\ ret.op = "get_tracklet_frame_id"
    /\ ret.out.tag = "ok"
    /\ objs[1].tracklet_annotations[ret.out.val[1] + 1][1].scene = 1
    /\ ret.out.val[1] + 1 = Len(objs[1].tracklet_annotations)

----------------------------------------------------------------------------
(* Index misuse *)

\* the global indices outside 0 <= g < num_frames() (every index when the
\* dataset has no tracklet)
OutOfRange(self) ==
    {g \in (-2)..(TotalFrames(self) + 2) : g < 0 \/ g >= TotalFrames(self)}

\* the call was one of the two misuses on the instance self
IsMisuse(self, call) ==
    \/ call.op = "get_tracklet_frame_id" /\ call.args[1] \in OutOfRange(self)
    \/ call.op = "get_comp_template_pcd" /\ ~self.cache

\* C12: get_tracklet_frame_id(g) with g < 0 or g >= num_frames() ends in an
\* error instead of returning a (tracklet_id, frame_id) pair, and
\* get_comp_template_pcd(t) on a dataset constructed with caching disabled
\* ends in an error instead of returning a point cloud; neither call changes
\* the dataset's state.
C12_MisuseIsAnError ==
    [][/\ \A i \in DOMAIN objs' :
             /\ \A g \in OutOfRange(objs'[i]) :
                   get_tracklet_frame_id(objs'[i], g).tag = "err"
             /\ ~objs'[i].cache =>
                   \A t \in (-1)..(MaxTrackLen + 1) :
                       get_comp_template_pcd(objs'[i], t).tag = "err"
       /\ \A i \in DOMAIN objs :
             (runs' = runs /\ IsMisuse(objs[i], ret')) =>
                 /\ ret'.out.tag = "err"
                 /\ objs' = objs
                 /\ disk' = disk]_vars

\* a negative index was refused on a dataset that has tracklets
C12_Witness ==
    /\ objs # <<>>
    /\ objs[1].tracklet_annotations # <<>>
    /\ ret.op = "get_tracklet_frame_id"
    /\ ret.args[1] < 0
    /\ ret.out = Err("AssertionError")

----------------------------------------------------------------------------
(* The cache-miss build *)

\* the frames of tracklet t (1-based) as _build_frame produces them
BuiltFrames(self, t) ==
    [f \in 1..self.tracklet_num_frames[t] |-> Built(self, <<t - 1, f - 1>>).val]

\* a positive crop offset applies to the instance
CropApplies(self) == self.cfg.preload_offset > 0 /\ self.split_type = "train"

\* the template merged from the given frames under the options of the instance
TemplateOf(self, frames) ==
    merge_template_pcds([f \in DOMAIN frames |-> frames[f].pcd],
                        [f \in DOMAIN frames |-> frames[f].bbox],
                        self.cfg.model_offset, self.cfg.model_scale)

\* C13: in a cache-miss build the template of every tracklet is merged from
\* the uncropped point clouds of all of the tracklet's frames, the frames are
\* cropped only after that merge, and the persisted materialization holds the
\* cropped per-frame clouds (when a positive crop offset applies) together
\* with the template built from the uncropped ones.
C13_TemplateFromUncropped ==
    \A i \in DOMAIN objs :
        objs[i].origin = "miss" =>
          LET self == objs[i]
              blob == disk[cache_file_dir(self.cfg, self.split_type,
                                          self.preload_offset, self.preload_interval)]
          IN  /\ blob = self.tracklets.val
              /\ Len(blob) = num_tracklets(self)
              /\ \A t \in 1..num_tracklets(self) :
                    LET fr == BuiltFrames(self, t)
                    IN  /\ blob[t].comp_template_pcd = TemplateOf(self, fr)
                        /\ Len(blob[t].frames) = Len(fr)
                        /\ \A f \in DOMAIN fr :
                              /\ blob[t].frames[f].bbox = fr[f].bbox
                              /\ blob[t].frames[f].anno = fr[f].anno
                              /\ blob[t].frames[f].pcd =
                                    IF CropApplies(self)
                                    THEN {p \in fr[f].pcd :
                                            Abs(p - fr[f].bbox.center)
                                              <= fr[f].bbox.size + self.cfg.preload_offset}
                                    ELSE fr[f].pcd
              /\ (ret.op = "get_comp_template_pcd" /\ ret.out.tag = "ok") =>
                    ret.out.val = TemplateOf(self, BuiltFrames(self, ret.args[1] + 1))

\* a cache-miss build cropped the frames of a tracklet and served a template
\* that holds points the cropped frames no longer have
C13_Witness ==
    /\ objs # <<>>
    /\ objs[1].origin = "miss"
    /\ CropApplies(objs[1])
    /\ ret.op = "get_comp_template_pcd"
    /\ ret.out.tag = "ok"
    /\ ret.out.val #
          TemplateOf(objs[1], objs[1].tracklets.val[ret.args[1] + 1].frames)
    /\ \E f \in DOMAIN objs[1].tracklets.val[ret.args[1] + 1].frames :
          objs[1].tracklets.val[ret.args[1] + 1].frames[f].pcd #
              BuiltFrames(objs[1], ret.args[1] + 1)[f].pcd

----------------------------------------------------------------------------
(* Load or build *)

\* caching is enabled for the role
CachingEnabled(cfg, split_type) ==
    IF split_type = "train" THEN cfg.cache_train ELSE cfg.cache_eval

\* the path of the fingerprint: debug flag, category, role, coordinate mode,
\* crop offset in force, subsampling interval
FingerprintPath(cfg, split_type) ==
    [prefix |-> IF cfg.debug THEN "KITTI_DEBUG" ELSE "KITTI",
     category_name |-> cfg.category_name, split_type |-> split_type,
     coordinate_mode |-> cfg.coordinate_mode,
     preload_offset |-> IF split_type = "train" THEN cfg.preload_offset ELSE -1,
     preload_interval |-> cfg.preload_interval]

\* the sequence holds one materialization per tracklet and one frame per
\* record, in order
CoversEveryFrame(self, seq) ==
    /\ Len(seq) = Len(self.tracklet_annotations)
    /\ \A t \in DOMAIN seq :
          /\ Len(seq[t].frames) = Len(self.tracklet_annotations[t])
          /\ \A f \in DOMAIN seq[t].frames :
                seq[t].frames[f].anno = self.tracklet_annotations[t][f]

\* C14: with caching enabled a construction that finds no blob at the
\* fingerprint path builds every frame of every tracklet in order, writes the
\* sequence to that path before it returns and holds exactly what it wrote; a
\* later construction with the same fingerprint finds the blob, builds no
\* frame, writes nothing and holds the stored sequence; with caching disabled
\* construction neither reads nor writes a blob and holds no materialization.
C14_LoadOrBuild ==
    [][(runs' = runs + 1) =>
          LET cfg == ret'.args[1]
              split_type == ret'.args[2]
              path == FingerprintPath(cfg, split_type)
          IN  IF ret'.out.tag = "err"
              THEN objs' = <<>> /\ disk' = disk
              ELSE IF ~CachingEnabled(cfg, split_type)
              THEN /\ disk' = disk
                   /\ objs'[1].tracklets = None
              ELSE IF path \in DOMAIN disk
              THEN /\ disk' = disk
                   /\ objs'[1].tracklets = Some(disk[path])
                   /\ objs'[1].calibration_info = <<>>
              ELSE /\ DOMAIN disk' = DOMAIN disk \cup {path}
                   /\ \A q \in DOMAIN disk : disk'[q] = disk[q]
                   /\ objs'[1].tracklets = Some(disk'[path])
                   /\ CoversEveryFrame(objs'[1], disk'[path])
                   /\ NeededScenes(objs'[1]) = DOMAIN objs'[1].calibration_info]_vars

\* a construction loaded the blob an earlier construction of the same
\* fingerprint had built and written
C14_Witness ==
    /\ objs # <<>>
    /\ objs[1].origin = "hit"
    /\ ret.op = "__init__"
    /\ runs = 2
    /\ objs[1].tracklets.val # <<>>
    /\ DOMAIN disk = {FingerprintPath(objs[1].cfg, objs[1].split_type)}
    /\ objs[1].tracklets = Some(disk[FingerprintPath(objs[1].cfg, objs[1].split_type)])

============================================================================
